---- MODULE Spec2Model ----
(***************************************************************************)
(* A model of createComponent (labs/react create-component.ts): the React  *)
(* wrapper around a custom element.  The adapter's own code (render, the   *)
(* wrapping ref callback, setRef, _updateElement, setProperty, setEvent)   *)
(* is translated statement by statement; React is the environment that     *)
(* calls render, detaches and attaches refs, and runs the lifecycle hooks.  *)
(***************************************************************************)
EXTENDS Naturals, Sequences, FiniteSets, TLC

(***************************************************************************)
(* Bounds of the model.                                                    *)
(***************************************************************************)
NumHandlers == 2          \* distinct handler functions a caller passes
MaxListenerObjects == 2   \* size of the pool of listener-object identities
MaxCalls == 2             \* the calls a callback ref receives are counted up to this

(***************************************************************************)
(* JavaScript values.  Every value is a string, so that === is =.          *)
(***************************************************************************)
UNDEF == "undefined"
NULL == "null"
ABSENT == "<absent>"      \* the key is not an own property of the object
UNSET == "<unset>"        \* a node property or ref nobody has written yet
FREE == "<free>"          \* a listener-object identity not in use

Handlers == {"fn" \o ToString(k) : k \in 1..NumHandlers}
ValueSet == {"a", "b"}

PropNames == {"value", "onChanged", "title", "className", "__forwardedRef"}
\* Object.entries / for-in order: the order in which the caller wrote the keys.
PropOrder == <<"value", "onChanged", "title", "className", "__forwardedRef">>

EventNames == {"changed", "cls", ""}

CallbackRefs == {"cbA", "cbB"}
BoxRefs == {"boxC"}
Refs == CallbackRefs \cup BoxRefs

Insts == {"i1", "i2"}
Nodes == {"n1", "n2"}
NodeOf(i) == IF i = "i1" THEN "n1" ELSE "n2"

ObjIds == 1..MaxListenerObjects

reservedReactProperties == {"children", "localName", "ref", "style", "className"}

(***************************************************************************)
(* The element class handed to createComponent: the names a for-in over    *)
(* its prototype enumerates (inherited ones included), and the names that  *)
(* are `in HTMLElement.prototype`.                                         *)
(***************************************************************************)
HTMLElementPrototype == {"title", "className", "children", "localName", "style"}
ElementClassPrototype == HTMLElementPrototype \cup {"value"}

(***************************************************************************)
(* Caller profiles: the inputs the model enumerates.  Each fixes the event *)
(* map given to createComponent and the values the caller passes per prop. *)
(***************************************************************************)
NoEvents == [k \in PropNames |-> UNDEF]
Profiles == {"props", "reservedKey", "emptyEvent", "noEvents", "refs", "pair"}

EventsOf(pr) ==
  CASE pr = "reservedKey" -> [NoEvents EXCEPT !["onChanged"] = "changed", !["className"] = "cls"]
    [] pr = "emptyEvent" -> [NoEvents EXCEPT !["onChanged"] = ""]
    [] pr = "noEvents" -> NoEvents
    [] OTHER -> [NoEvents EXCEPT !["onChanged"] = "changed"]

PropValues(pr, k) ==
  CASE k = "value" ->
         IF pr = "props" THEN {ABSENT, UNDEF} \cup ValueSet
         ELSE IF pr = "pair" THEN {ABSENT} ELSE {ABSENT, "a"}
    [] k = "onChanged" ->
         IF pr = "refs" THEN {ABSENT, "fn1"} ELSE {ABSENT, UNDEF} \cup Handlers
    [] k = "title" ->
         IF pr = "props" THEN {ABSENT, "t1", "t2"}
         ELSE IF pr \in {"refs", "pair"} THEN {ABSENT} ELSE {ABSENT, "t1"}
    [] k = "className" ->
         IF pr \in {"refs", "pair"} THEN {ABSENT} ELSE {ABSENT, "c1"}
    [] OTHER ->          \* __forwardedRef: forwardRef passes null for no ref
         IF pr = "refs" THEN {NULL} \cup Refs ELSE {NULL}

MkProps(v, h, t, c, r) ==
  [k \in PropNames |->
     CASE k = "value" -> v
       [] k = "onChanged" -> h
       [] k = "title" -> t
       [] k = "className" -> c
       [] OTHER -> r]

PropsOf(pr) ==
  {MkProps(v, h, t, c, r) :
     v \in PropValues(pr, "value"), h \in PropValues(pr, "onChanged"),
     t \in PropValues(pr, "title"), c \in PropValues(pr, "className"),
     r \in PropValues(pr, "__forwardedRef")}

\* The instances the host mounts: two of them, on two nodes, under "pair".
InstsOf(pr) == IF pr = "pair" THEN Insts ELSE {"i1"}

\* What the host resolves the rendered element to: the DOM node, or null
\* under a renderer without a DOM (react-test-renderer's default node mock).
HostNodesOf(pr, i) == IF pr = "refs" THEN {NodeOf(i), NULL} ELSE {NodeOf(i)}

(***************************************************************************)
(* State.                                                                  *)
(***************************************************************************)
VARIABLES
  caller,          \* the caller profile (fixes the inputs enumerated)
  events,          \* createComponent's `events` argument
  pc,              \* per instance: where the host is in its render/commit cycle
  props,           \* this.props
  oldProps,        \* the previous props the host hands to componentDidUpdate
  element,         \* this._element
  elementProps,    \* this._elementProps
  userRef,         \* this._userRef
  ref,             \* this._ref, the wrapping callback
  fwd,             \* the props render passes to createElement(tagName, ...)
  attached,        \* host: the ref callback currently attached to the element
  hostNode,        \* host: what the element's ref resolves to
  nodeProp,        \* DOM: node[name], for the names the adapter may write
  nodeListeners,   \* DOM: the (event, listener object) pairs registered on a node
  listenedEvents,  \* the module-level WeakMap node -> Map(event -> listener object)
  handleEvent,     \* heap: the handleEvent field of each listener object
  refState,        \* the caller's refs: calls received / the box's current
  supplied,        \* history: the refs the caller has passed to each instance
  ops              \* per instance: what the last update pass did, in order

vars == <<caller, events, pc, props, oldProps, element, elementProps, userRef, ref,
          fwd, attached, hostNode, nodeProp, nodeListeners, listenedEvents,
          handleEvent, refState, supplied, ops>>

NoProps == [k \in PropNames |-> ABSENT]
NoWrapper == [id |-> 0, userRef |-> UNDEF]
NoMap == [has |-> FALSE, map |-> [e \in EventNames |-> 0]]
NoCalls == [last |-> UNSET, withNode |-> 0, withNull |-> 0]

\* obj[key]: undefined when the key is absent.
Get(obj, k) == IF obj[k] = ABSENT THEN UNDEF ELSE obj[k]

Truthy(v) == v \notin {UNDEF, NULL, ""}

(***************************************************************************)
(* createComponent: the property map built once per adapter.               *)
(***************************************************************************)
\* {...(events ?? {})}, then `true` for every p in elementClass.prototype
\* that is not in HTMLElement.prototype; the value is elementPropsMap[k].
elementPropsMap(k) ==
  IF k \in ElementClassPrototype /\ k \notin HTMLElementPrototype
    THEN "true"
    ELSE events[k]

(***************************************************************************)
(* The DOM and the module-level registry, as one record d:                 *)
(*   d.nodeProp, d.listeners, d.listened, d.heap  and the log d.ops.       *)
(***************************************************************************)
Op(kind, key, val, obj) == [op |-> kind, key |-> key, val |-> val, obj |-> obj]

\* `{handleEvent: value}`: a new object, distinct from every live one.
NewListener(d) == CHOOSE h \in ObjIds : d.heap[h] = FREE /\ \A g \in ObjIds : d.heap[g] = FREE => h <= g

\* setEvent that replaces the listener object on every handler change
\* (removeEventListener + addEventListener) instead of updating it in place.
setEvent_Readd(d, node, event, value) ==
  LET d1 == [d EXCEPT !.listened[node].has = TRUE]
      handler == d1.listened[node].map[event]
      d2 == IF handler # 0
              THEN [d1 EXCEPT !.listened[node].map[event] = 0,
                              !.heap[handler] = FREE,
                              !.listeners[node] = @ \ {<<event, handler>>},
                              !.ops = Append(@, Op("removeEventListener", event, value, handler))]
              ELSE d1
  IN IF value # UNDEF
       THEN LET h == NewListener(d2)
            IN [d2 EXCEPT !.listened[node].map[event] = h,
                          !.heap[h] = value,
                          !.listeners[node] = @ \cup {<<event, h>>},
                          !.ops = Append(@, Op("addEventListener", event, value, h))]
       ELSE d2

\* setEvent with a registry keyed by event name only: one Map shared by all
\* nodes (kept under the first node) instead of one Map per node.
setEvent_SharedRegistry(d, node, event, value) ==
  LET d1 == [d EXCEPT !.listened["n1"].has = TRUE]
      handler == d1.listened["n1"].map[event]
  IN IF value # UNDEF
       THEN IF handler = 0
              THEN LET h == NewListener(d1)
                   IN [d1 EXCEPT !.listened["n1"].map[event] = h,
                                 !.heap[h] = value,
                                 !.listeners[node] = @ \cup {<<event, h>>},
                                 !.ops = Append(@, Op("addEventListener", event, value, h))]
              ELSE [d1 EXCEPT !.heap[handler] = value,
                              !.ops = Append(@, Op("handleEvent", event, value, handler))]
       ELSE IF handler # 0
              THEN [d1 EXCEPT !.listened["n1"].map[event] = 0,
                              !.heap[handler] = FREE,
                              !.listeners[node] = @ \ {<<event, handler>>},
                              !.ops = Append(@, Op("removeEventListener", event, value, handler))]
              ELSE d1

\* setEvent that registers a fresh listener object for every new handler
\* without removing the one already registered.
setEvent_Leak(d, node, event, value) ==
  LET d1 == [d EXCEPT !.listened[node].has = TRUE]
      handler == d1.listened[node].map[event]
  IN IF value # UNDEF
       THEN LET h == NewListener(d1)
            IN [d1 EXCEPT !.listened[node].map[event] = h,
                          !.heap[h] = value,
                          !.listeners[node] = @ \cup {<<event, h>>},
                          !.ops = Append(@, Op("addEventListener", event, value, h))]
       ELSE IF handler # 0
              THEN [d1 EXCEPT !.listened[node].map[event] = 0,
                              !.heap[handler] = FREE,
                              !.listeners[node] = @ \ {<<event, handler>>},
                              !.ops = Append(@, Op("removeEventListener", event, value, handler))]
              ELSE d1

setEvent(d, node, event, value) ==
  LET d1 == [d EXCEPT !.listened[node].has = TRUE]
      handler == d1.listened[node].map[event]
  IN IF value # UNDEF
       THEN IF handler = 0
              THEN LET h == NewListener(d1)
                   IN [d1 EXCEPT !.listened[node].map[event] = h,
                                 !.heap[h] = value,
                                 !.listeners[node] = @ \cup {<<event, h>>},
                                 !.ops = Append(@, Op("addEventListener", event, value, h))]
              ELSE [d1 EXCEPT !.heap[handler] = value,
                              !.ops = Append(@, Op("handleEvent", event, value, handler))]
       ELSE IF handler # 0
              THEN [d1 EXCEPT !.listened[node].map[event] = 0,
                              !.heap[handler] = FREE,
                              !.listeners[node] = @ \ {<<event, handler>>},
                              !.ops = Append(@, Op("removeEventListener", event, value, handler))]
              ELSE d1

\* setProperty without the dirty check (value === old no longer returns early).
setProperty_NoDirtyCheck(d, node, name, value, old) ==
  IF name \in reservedReactProperties
    THEN d
    ELSE LET event == events[name]
         IN IF event # UNDEF
              THEN setEvent(d, node, event, value)
              ELSE [d EXCEPT !.nodeProp[node][name] = value,
                             !.ops = Append(@, Op("set", name, value, 0))]

setProperty(d, node, name, value, old) ==
  IF value = old \/ name \in reservedReactProperties
    THEN d
    ELSE LET event == events[name]
         IN IF event # UNDEF
              THEN setEvent(d, node, event, value)
              ELSE [d EXCEPT !.nodeProp[node][name] = value,
                             !.ops = Append(@, Op("set", name, value, 0))]

\* The for-in loop of _updateElement over this._elementProps.
RECURSIVE updateProps(_, _, _, _, _, _)
updateProps(d, node, names, new, hasOld, old) ==
  IF names = <<>>
    THEN d
    ELSE LET prop == Head(names)
         IN updateProps(setProperty(d, node, prop, Get(new, prop),
                                    IF hasOld THEN Get(old, prop) ELSE UNDEF),
                        node, Tail(names), new, hasOld, old)

OwnKeys(obj) == SelectSeq(PropOrder, LAMBDA k : obj[k] # ABSENT)

\* _updateElement without the `this._element === null` return: it writes to
\* the rendered node whether or not the instance has captured it.
updateElement_NoNullCheck(d, i, hasOld) ==
  updateProps(d, IF element[i] = NULL THEN NodeOf(i) ELSE element[i],
              OwnKeys(elementProps[i]), props[i], hasOld, oldProps[i])

\* _updateElement that visits every marked name of the property map, so a
\* prop omitted from the current render is set to undefined.
updateElement_UnsetOmitted(d, i, hasOld) ==
  IF element[i] = NULL
    THEN d
    ELSE updateProps(d, element[i],
                     SelectSeq(PropOrder, LAMBDA k : Truthy(elementPropsMap(k))),
                     props[i], hasOld, oldProps[i])

updateElement(d, i, hasOld) ==
  IF element[i] = NULL
    THEN d
    ELSE updateProps(d, element[i], OwnKeys(elementProps[i]), props[i], hasOld, oldProps[i])

(***************************************************************************)
(* Refs.                                                                   *)
(***************************************************************************)
Count(n) == IF n >= MaxCalls THEN MaxCalls ELSE n + 1

setRef(rs, r, value) ==
  IF r \in CallbackRefs
    THEN [rs EXCEPT ![r] = [last |-> value,
                           withNode |-> IF value # NULL THEN Count(@.withNode) ELSE @.withNode,
                           withNull |-> IF value = NULL THEN Count(@.withNull) ELSE @.withNull]]
    ELSE [rs EXCEPT ![r].last = value]

\* A wrapping callback that stores every value it is called with.
wrapperCall_Reassign(s, w, value) ==
  LET s1 == [s EXCEPT !.element = value]
      s2 == IF w.userRef # NULL
              THEN [s1 EXCEPT !.refState = setRef(s1.refState, w.userRef, value)]
              ELSE s1
  IN [s2 EXCEPT !.userRef = w.userRef]

\* The wrapping callback `(value) => {...}` built by render, closed over
\* userRef = w.userRef, applied to value; s = [element, userRef, refState].
wrapperCall(s, w, value) ==
  LET s1 == IF s.element = NULL THEN [s EXCEPT !.element = value] ELSE s
      s2 == IF w.userRef # NULL
              THEN [s1 EXCEPT !.refState = setRef(s1.refState, w.userRef, value)]
              ELSE s1
  IN [s2 EXCEPT !.userRef = w.userRef]

(***************************************************************************)
(* render.                                                                 *)
(***************************************************************************)
\* render that builds a new wrapping callback on every call.
renderRef_Always(i, newUserRef) ==
  [id |-> IF ref[i].id = 1 THEN 2 ELSE 1, userRef |-> newUserRef]

\* render that keeps the first wrapping callback whatever the caller's ref.
renderRef_Stale(i, newUserRef) ==
  IF ref[i] = NoWrapper
    THEN [id |-> 1, userRef |-> newUserRef]
    ELSE ref[i]

\* this._ref after the first statement of render, given the incoming ref.
renderRef(i, newUserRef) ==
  IF ref[i] = NoWrapper \/ userRef[i] # newUserRef
    THEN [id |-> IF ref[i].id = 1 THEN 2 ELSE 1, userRef |-> newUserRef]
    ELSE ref[i]

\* The partition of this.props: the entries kept in this._elementProps ...
renderElementProps(p) ==
  [k \in PropNames |-> IF p[k] # ABSENT /\ Truthy(elementPropsMap(k)) THEN p[k] ELSE ABSENT]

\* ... and the entries copied to the props of createElement(tagName, props).
renderProps(p) ==
  [k \in PropNames |-> IF p[k] # ABSENT /\ ~Truthy(elementPropsMap(k)) THEN p[k] ELSE ABSENT]

(***************************************************************************)
(* Initial state: the adapter is created, no instance is mounted.          *)
(***************************************************************************)
Init ==
  /\ caller \in Profiles
  /\ events = EventsOf(caller)
  /\ pc = [i \in Insts |-> "unborn"]
  /\ props = [i \in Insts |-> NoProps]
  /\ oldProps = [i \in Insts |-> NoProps]
  /\ element = [i \in Insts |-> NULL]
  /\ elementProps = [i \in Insts |-> NoProps]
  /\ userRef = [i \in Insts |-> UNDEF]
  /\ ref = [i \in Insts |-> NoWrapper]
  /\ fwd = [i \in Insts |-> [ref |-> NoWrapper, props |-> NoProps]]
  /\ attached = [i \in Insts |-> NoWrapper]
  /\ hostNode = [i \in Insts |-> NULL]
  /\ nodeProp = [n \in Nodes |-> [k \in PropNames |-> UNSET]]
  /\ nodeListeners = [n \in Nodes |-> {}]
  /\ listenedEvents = [n \in Nodes |-> NoMap]
  /\ handleEvent = [o \in ObjIds |-> FREE]
  /\ refState = [r \in Refs |-> IF r \in BoxRefs THEN [NoCalls EXCEPT !.last = NULL] ELSE NoCalls]
  /\ supplied = [i \in Insts |-> {}]
  /\ ops = [i \in Insts |-> <<>>]

Dom(i) == [nodeProp |-> nodeProp, listeners |-> nodeListeners, listened |-> listenedEvents,
           heap |-> handleEvent, ops |-> ops[i]]

RefWorld(i) == [element |-> element[i], userRef |-> userRef[i], refState |-> refState]

(***************************************************************************)
(* Actions.  The host renders, commits the refs (detach the old callback,  *)
(* attach the new one), runs componentDidMount / componentDidUpdate, and   *)
(* later unmounts.                                                         *)
(***************************************************************************)
\* The host calls render() with new props (the first call mounts).
Render(i, p, n) ==
  /\ i \in InstsOf(caller)
  /\ pc[i] \in {"unborn", "idle"}
  /\ oldProps' = [oldProps EXCEPT ![i] = IF pc[i] = "unborn" THEN NoProps ELSE props[i]]
  /\ hostNode' = [hostNode EXCEPT ![i] = IF pc[i] = "unborn" THEN n ELSE @]
  /\ props' = [props EXCEPT ![i] = p]
  /\ ref' = [ref EXCEPT ![i] = renderRef(i, p["__forwardedRef"])]
  /\ elementProps' = [elementProps EXCEPT ![i] = renderElementProps(p)]
  /\ fwd' = [fwd EXCEPT ![i] = [ref |-> renderRef(i, p["__forwardedRef"]), props |-> renderProps(p)]]
  /\ supplied' = [supplied EXCEPT ![i] = @ \cup {p["__forwardedRef"]}]
  /\ ops' = [ops EXCEPT ![i] = <<>>]
  /\ pc' = [pc EXCEPT ![i] = "rendered"]
  /\ UNCHANGED <<caller, events, element, userRef, attached, nodeProp, nodeListeners,
                 listenedEvents, handleEvent, refState>>

\* Commit: the element's ref prop changed, the host calls the old callback with null.
DetachRef(i) ==
  /\ pc[i] = "rendered"
  /\ attached[i] # NoWrapper
  /\ attached[i] # fwd[i].ref
  /\ LET s == wrapperCall(RefWorld(i), attached[i], NULL)
     IN /\ element' = [element EXCEPT ![i] = s.element]
        /\ userRef' = [userRef EXCEPT ![i] = s.userRef]
        /\ refState' = s.refState
  /\ attached' = [attached EXCEPT ![i] = NoWrapper]
  /\ pc' = [pc EXCEPT ![i] = "detached"]
  /\ UNCHANGED <<caller, events, props, oldProps, elementProps, ref, fwd, hostNode,
                 nodeProp, nodeListeners, listenedEvents, handleEvent, supplied, ops>>

\* Commit: the host calls the element's ref callback with the resolved node.
AttachRef(i) ==
  /\ pc[i] \in {"rendered", "detached"}
  /\ attached[i] = NoWrapper
  /\ LET s == wrapperCall(RefWorld(i), fwd[i].ref, hostNode[i])
     IN /\ element' = [element EXCEPT ![i] = s.element]
        /\ userRef' = [userRef EXCEPT ![i] = s.userRef]
        /\ refState' = s.refState
  /\ attached' = [attached EXCEPT ![i] = fwd[i].ref]
  /\ pc' = [pc EXCEPT ![i] = "attached"]
  /\ UNCHANGED <<caller, events, props, oldProps, elementProps, ref, fwd, hostNode,
                 nodeProp, nodeListeners, listenedEvents, handleEvent, supplied, ops>>

ApplyUpdate(i, hasOld) ==
  LET d == updateElement(Dom(i), i, hasOld)
  IN /\ nodeProp' = d.nodeProp
     /\ nodeListeners' = d.listeners
     /\ listenedEvents' = d.listened
     /\ handleEvent' = d.heap
     /\ ops' = [ops EXCEPT ![i] = d.ops]

componentDidMount(i) ==
  /\ pc[i] = "attached"
  /\ oldProps[i] = NoProps
  /\ ApplyUpdate(i, FALSE)
  /\ pc' = [pc EXCEPT ![i] = "updated"]
  /\ UNCHANGED <<caller, events, props, oldProps, element, elementProps, userRef, ref,
                 fwd, attached, hostNode, refState, supplied>>

componentDidUpdate(i) ==
  /\ \/ pc[i] = "attached"
     \/ pc[i] = "rendered" /\ attached[i] = fwd[i].ref
  /\ oldProps[i] # NoProps
  /\ ApplyUpdate(i, TRUE)
  /\ pc' = [pc EXCEPT ![i] = "updated"]
  /\ UNCHANGED <<caller, events, props, oldProps, element, elementProps, userRef, ref,
                 fwd, attached, hostNode, refState, supplied>>

\* The lifecycle hook has returned: the host drops the previous props.
LifecycleReturn(i) ==
  /\ pc[i] = "updated"
  /\ pc' = [pc EXCEPT ![i] = "idle"]
  /\ oldProps' = [oldProps EXCEPT ![i] = NoProps]
  /\ ops' = [ops EXCEPT ![i] = <<>>]
  /\ UNCHANGED <<caller, events, props, element, elementProps, userRef, ref, fwd, attached,
                 hostNode, nodeProp, nodeListeners, listenedEvents, handleEvent, refState,
                 supplied>>

\* Unmount: the host calls the attached ref callback with null.
Unmount(i) ==
  /\ pc[i] = "idle"
  /\ LET s == wrapperCall(RefWorld(i), attached[i], NULL)
     IN /\ element' = [element EXCEPT ![i] = s.element]
        /\ userRef' = [userRef EXCEPT ![i] = s.userRef]
        /\ refState' = s.refState
  /\ attached' = [attached EXCEPT ![i] = NoWrapper]
  /\ pc' = [pc EXCEPT ![i] = "unmounted"]
  /\ UNCHANGED <<caller, events, props, oldProps, elementProps, ref, fwd, hostNode,
                 nodeProp, nodeListeners, listenedEvents, handleEvent, supplied, ops>>

Next ==
  \E i \in Insts :
    \/ \E p \in PropsOf(caller), n \in HostNodesOf(caller, i) : Render(i, p, n)
    \/ DetachRef(i)
    \/ AttachRef(i)
    \/ componentDidMount(i)
    \/ componentDidUpdate(i)
    \/ LifecycleReturn(i)
    \/ Unmount(i)

Spec == Init /\ [][Next]_vars

(***************************************************************************)
(* Vocabulary of the properties.                                           *)
(***************************************************************************)
\* The update pass of instance i has just run (on mount or on update).
AfterPass(i) == pc[i] = "updated"
\* ... and it was componentDidUpdate, with previous props.
AfterUpdate(i) == pc[i] = "updated" /\ oldProps[i] # NoProps
\* A listener object is registered on node n for event e.
Listens(n, e) == \E o \in ObjIds : <<e, o>> \in nodeListeners[n]
\* The last pass of i wrote for prop k: assigned node[k], or touched the
\* listener of the event k maps to.
WroteFor(i, k) ==
  \E j \in DOMAIN ops[i] :
    \/ ops[i][j].op = "set" /\ ops[i][j].key = k
    \/ ops[i][j].op # "set" /\ events[k] # UNDEF /\ ops[i][j].key = events[k]
\* k is a key of the property map built by createComponent.
InPropertyMap(k) == elementPropsMap(k) # UNDEF

(***************************************************************************)
(* C1: after a render that supplied onChanged (-> 'changed') with a        *)
(* handler, a render that omits onChanged leaves, once the update pass has *)
(* run, no listener for 'changed' on the node, while a changed `value` in  *)
(* the same render is written to the node.                                 *)
(* The code does not do this: the pass only visits the props present in    *)
(* the current render, so the listener stays.                              *)
(***************************************************************************)
C1_OmittedEventRemovesListener ==
  \A i \in Insts :
    (/\ AfterUpdate(i)
     /\ element[i] # NULL
     /\ events["onChanged"] = "changed"
     /\ oldProps[i]["onChanged"] \in Handlers
     /\ props[i]["onChanged"] = ABSENT)
    => /\ ~Listens(element[i], "changed")
       /\ (props[i]["value"] # ABSENT /\ props[i]["value"] # Get(oldProps[i], "value")
             => nodeProp[element[i]]["value"] = props[i]["value"])

(***************************************************************************)
(* C2: in every componentDidUpdate pass, a property-map prop whose value   *)
(* is strictly equal to its previous value gets no write: no property      *)
(* assignment, no addEventListener, no removeEventListener, no change of   *)
(* the listener object.                                                    *)
(***************************************************************************)
C2_DirtyCheck ==
  \A i \in Insts :
    AfterUpdate(i) =>
      \A k \in PropNames :
        (InPropertyMap(k) /\ Get(props[i], k) = Get(oldProps[i], k)) => ~WroteFor(i, k)

\* An update pass that left the unchanged `value` and `title`-like props
\* alone while rebinding a changed handler.
C2_Witness ==
  \E i \in Insts :
    /\ AfterUpdate(i)
    /\ element[i] # NULL
    /\ props[i]["value"] = "a" /\ oldProps[i]["value"] = "a"
    /\ oldProps[i]["onChanged"] = "fn1" /\ props[i]["onChanged"] = "fn2"
    /\ Len(ops[i]) = 1
    /\ ~WroteFor(i, "value")
    /\ nodeProp[element[i]]["value"] = "a"

(***************************************************************************)
(* C3: when a listener is installed for (node, event) and an update        *)
(* supplies a defined handler for the event's prop, the pass calls neither *)
(* removeEventListener nor addEventListener for that event, the registry   *)
(* entry is the same listener object as before the pass, that object is    *)
(* still the one registered on the node, and its handleEvent is the new    *)
(* handler.  (So a run of handler-to-handler updates adds the listener     *)
(* once.)  Stated on every componentDidUpdate step.                        *)
(***************************************************************************)
C3_HandlerSwapInPlace ==
  [][\A i \in Insts : \A k \in PropNames :
       (/\ pc[i] # "updated" /\ pc'[i] = "updated" /\ oldProps[i] # NoProps
        /\ element[i] # NULL
        /\ events[k] # UNDEF
        /\ listenedEvents[element[i]].map[events[k]] # 0
        /\ props[i][k] \in Handlers)
       => LET n == element[i]
              e == events[k]
              h == listenedEvents[n].map[e]
          IN /\ listenedEvents'[n].map[e] = h
             /\ nodeListeners'[n] = nodeListeners[n]
             /\ <<e, h>> \in nodeListeners'[n]
             /\ handleEvent'[h] = props[i][k]
             /\ \A j \in DOMAIN ops'[i] :
                   ops'[i][j].key = e => ops'[i][j].op = "handleEvent"]_vars

\* fn1 was installed, the update supplied fn2: the one listener object now
\* invokes fn2 and the pass logged a single in-place rebind.
C3_Witness ==
  \E i \in Insts :
    /\ AfterUpdate(i)
    /\ element[i] # NULL
    /\ events["onChanged"] = "changed"
    /\ oldProps[i]["onChanged"] = "fn1" /\ props[i]["onChanged"] = "fn2"
    /\ \E h \in ObjIds :
         /\ listenedEvents[element[i]].map["changed"] = h
         /\ nodeListeners[element[i]] = {<<"changed", h>>}
         /\ handleEvent[h] = "fn2"
         /\ ops[i] = <<Op("handleEvent", "changed", "fn2", h)>>

(***************************************************************************)
(* C4: if an event-map prop was supplied with a defined handler in some    *)
(* earlier render and the current render supplies it with the value        *)
(* undefined, then after the update pass no listener for the mapped event  *)
(* is registered on the node and the registry has no entry for it.         *)
(* A listener or registry entry exists only if a handler was supplied      *)
(* earlier, so the claim says: after a pass whose props hold the prop with *)
(* value undefined, neither exists.                                        *)
(* The code breaks this after fn1 -> (omitted) -> undefined.               *)
(***************************************************************************)
C4_UndefinedClearsListener ==
  \A i \in Insts : \A k \in PropNames :
    (/\ AfterUpdate(i)
     /\ element[i] # NULL
     /\ events[k] # UNDEF
     /\ props[i][k] = UNDEF)
    => /\ ~Listens(element[i], events[k])
       /\ listenedEvents[element[i]].map[events[k]] = 0

(***************************************************************************)
(* C5: on every render, every incoming prop whose name is neither in the   *)
(* property map nor reserved is forwarded to createElement with the same   *)
(* name and value, and no prop whose name is in the property map is        *)
(* forwarded.                                                              *)
(* The code forwards a property-map prop whose map value is falsy (an      *)
(* event-map key mapped to the event name '').                             *)
(***************************************************************************)
C5_PassThroughForwarded ==
  \A i \in Insts :
    pc[i] # "unborn" =>
      \A k \in PropNames :
        /\ (props[i][k] # ABSENT /\ ~InPropertyMap(k) /\ k \notin reservedReactProperties
              => fwd[i].props[k] = props[i][k])
        /\ (InPropertyMap(k) => fwd[i].props[k] = ABSENT)

(***************************************************************************)
(* C6: a caller ref of unchanging identity, under a host that resolves the *)
(* element to a node: a callback ref is invoked once with the node (at     *)
(* mount) and once with null (at unmount), re-renders do not invoke it; a  *)
(* box ref's current is the node from mount to unmount and null after.     *)
(***************************************************************************)
C6_StableRef ==
  \A i \in Insts : \A r \in Refs :
    (/\ supplied[i] = {r}
     /\ hostNode[i] # NULL
     /\ \A j \in Insts \ {i} : r \notin supplied[j])
    => IF pc[i] = "unmounted"
         THEN /\ refState[r].last = NULL
              /\ r \in CallbackRefs => refState[r].withNode = 1 /\ refState[r].withNull = 1
         ELSE IF attached[i] # NoWrapper
           THEN /\ refState[r].last = hostNode[i]
                /\ r \in CallbackRefs => refState[r].withNode = 1 /\ refState[r].withNull = 0
           ELSE /\ refState[r].last = IF r \in BoxRefs THEN NULL ELSE UNSET
                /\ refState[r].withNode = 0 /\ refState[r].withNull = 0

\* Mounted with cbA and a handler, re-rendered without the handler (the
\* listener of the first render is still there), then unmounted.
C6_Witness ==
  \E i \in Insts :
    /\ pc[i] = "unmounted"
    /\ supplied[i] = {"cbA"}
    /\ hostNode[i] # NULL
    /\ props[i]["onChanged"] = ABSENT
    /\ Listens(hostNode[i], "changed")
    /\ refState["cbA"] = [last |-> NULL, withNode |-> 1, withNull |-> 1]

(***************************************************************************)
(* C7: in every update pass (previous value undefined on mount), each      *)
(* non-reserved property-map prop of the current props whose value differs *)
(* from its previous value is applied in exactly one way: a key of the     *)
(* event map goes through event binding for its event (the listener for    *)
(* that event now invokes the value, or is gone if the value is undefined) *)
(* and is never assigned as a node property; any other prop is assigned,   *)
(* with the identical value, as the node property of that name.            *)
(* The code does not bind an event-map key whose event name is ''.         *)
(***************************************************************************)
Bound(n, e, v) ==
  IF v = UNDEF
    THEN ~Listens(n, e) /\ listenedEvents[n].map[e] = 0
    ELSE \E h \in ObjIds :
           /\ listenedEvents[n].map[e] = h
           /\ <<e, h>> \in nodeListeners[n]
           /\ handleEvent[h] = v

C7_AppliedOneWay ==
  \A i \in Insts : \A k \in PropNames \ reservedReactProperties :
    (/\ AfterPass(i)
     /\ element[i] # NULL
     /\ InPropertyMap(k)
     /\ props[i][k] # ABSENT
     /\ props[i][k] # Get(oldProps[i], k))
    => IF events[k] # UNDEF
         THEN Bound(element[i], events[k], props[i][k]) /\ nodeProp[element[i]][k] = UNSET
         ELSE /\ nodeProp[element[i]][k] = props[i][k]
              /\ \E j \in DOMAIN ops[i] : ops[i][j] = Op("set", k, props[i][k], 0)

(***************************************************************************)
(* C8: a prop with a reserved name (children, localName, ref, style,       *)
(* className) is never assigned as a node property, never bound as an      *)
(* event, and is forwarded as a framework prop on every render that        *)
(* supplies it, whatever the event map.                                    *)
(* With a reserved name as an event-map key the code withholds the prop    *)
(* from the framework props (and then skips it in the pass): it is lost.   *)
(***************************************************************************)
C8_ReservedLeftToHost ==
  \A i \in Insts : \A k \in PropNames \cap reservedReactProperties :
    pc[i] # "unborn" =>
      /\ nodeProp[NodeOf(i)][k] = UNSET
      /\ (events[k] # UNDEF => ~Listens(NodeOf(i), events[k]))
      /\ (props[i][k] # ABSENT => fwd[i].props[k] = props[i][k])

(***************************************************************************)
(* C9: when the caller's ref changes between two renders, render builds a  *)
(* new wrapping callback, distinct from the attached one and closed over   *)
(* the new ref; once the host has committed (old callback with null, new   *)
(* callback with the node), the most recently supplied ref holds the node  *)
(* and every other ref supplied before holds null.                         *)
(***************************************************************************)
C9_RefChange ==
  \A i \in Insts :
    LET cur == props[i]["__forwardedRef"]
    IN /\ (pc[i] = "rendered" /\ oldProps[i] # NoProps /\ oldProps[i]["__forwardedRef"] # cur)
            => fwd[i].ref # attached[i] /\ fwd[i].ref.userRef = cur
       /\ (hostNode[i] # NULL /\ pc[i] \in {"attached", "updated", "idle"}
            /\ \A j \in Insts \ {i} : supplied[j] \cap supplied[i] \subseteq {NULL})
            => /\ cur \in Refs => refState[cur].last = hostNode[i]
               /\ \A r \in (supplied[i] \cap Refs) \ {cur} : refState[r].last = NULL

\* The caller went from callback cbA to box boxC: boxC holds the node, cbA
\* was called once with the node and once with null.
C9_Witness ==
  \E i \in Insts :
    /\ pc[i] = "idle"
    /\ hostNode[i] # NULL
    /\ supplied[i] = {"cbA", "boxC"}
    /\ props[i]["__forwardedRef"] = "boxC"
    /\ refState["boxC"].last = hostNode[i]
    /\ refState["cbA"] = [last |-> NULL, withNode |-> 1, withNull |-> 1]

(***************************************************************************)
(* C10: as long as the instance has not captured a non-null node, nothing  *)
(* is assigned on the node and no listener is registered or removed; an    *)
(* update pass that runs with this._element === null logs no operation,    *)
(* leaves node and registry as they were, and completes.                   *)
(***************************************************************************)
C10_NoNodeNoWrite ==
  \A i \in Insts :
    element[i] = NULL =>
      /\ ops[i] = <<>>
      /\ nodeProp[NodeOf(i)] = [k \in PropNames |-> UNSET]
      /\ nodeListeners[NodeOf(i)] = {}
      /\ listenedEvents[NodeOf(i)] = NoMap
      /\ \A o \in ObjIds : handleEvent[o] = FREE \/ \E n \in Nodes \ {NodeOf(i)}, e \in EventNames : <<e, o>> \in nodeListeners[n]

\* The host resolved the element to null, the ref callback ran with null,
\* and componentDidMount ran its pass with props that would have been applied.
C10_Witness ==
  \E i \in Insts :
    /\ pc[i] = "updated"
    /\ element[i] = NULL
    /\ attached[i] # NoWrapper
    /\ elementProps[i]["value"] = "a"
    /\ elementProps[i]["onChanged"] = "fn1"

(***************************************************************************)
(* C11: when a non-event property-map prop supplied in the previous render *)
(* is omitted from the current one, componentDidUpdate writes nothing for  *)
(* it: the node property keeps the value it had before the pass (it is not *)
(* reset to undefined).  Stated on every componentDidUpdate step.          *)
(***************************************************************************)
C11_OmittedPropertyKept ==
  [][\A i \in Insts : \A k \in PropNames :
       (/\ pc[i] # "updated" /\ pc'[i] = "updated" /\ oldProps[i] # NoProps
        /\ element[i] # NULL
        /\ InPropertyMap(k) /\ events[k] = UNDEF
        /\ oldProps[i][k] # ABSENT
        /\ props[i][k] = ABSENT)
       => /\ nodeProp'[element[i]][k] = nodeProp[element[i]][k]
          /\ \A j \in DOMAIN ops'[i] : ~(ops'[i][j].op = "set" /\ ops'[i][j].key = k)]_vars

\* `value` was 'a', the next render omitted it while changing the handler:
\* the pass rebound the handler and node.value is still 'a'.
C11_Witness ==
  \E i \in Insts :
    /\ AfterUpdate(i)
    /\ element[i] # NULL
    /\ oldProps[i]["value"] = "a"
    /\ props[i]["value"] = ABSENT
    /\ oldProps[i]["onChanged"] = "fn1" /\ props[i]["onChanged"] = "fn2"
    /\ Len(ops[i]) = 1
    /\ nodeProp[element[i]]["value"] = "a"

(***************************************************************************)
(* C12: registry invariant.  In every reachable state, for every node and  *)
(* event name: a listener object is registered on the node for the event   *)
(* if and only if the registry maps (node, event) to that object; so the   *)
(* node never carries two adapter-installed listeners for one event, and a *)
(* node without a registry map carries none.                               *)
(***************************************************************************)
C12_RegistryInvariant ==
  \A n \in Nodes : \A e \in EventNames :
    /\ \A o \in ObjIds : <<e, o>> \in nodeListeners[n] <=> listenedEvents[n].map[e] = o
    /\ Cardinality({o \in ObjIds : <<e, o>> \in nodeListeners[n]}) <= 1
    /\ nodeListeners[n] \subseteq EventNames \X ObjIds
    /\ (~listenedEvents[n].has => listenedEvents[n].map[e] = 0)

\* Two nodes: on n1 the handler was set and then changed (fn1 -> fn2), on
\* n2 it was set and then cleared with undefined.
C12_Witness ==
  /\ AfterUpdate("i1")
  /\ oldProps["i1"]["onChanged"] = "fn1" /\ props["i1"]["onChanged"] = "fn2"
  /\ \E h \in ObjIds : nodeListeners["n1"] = {<<"changed", h>>} /\ handleEvent[h] = "fn2"
  /\ pc["i2"] = "idle"
  /\ props["i2"]["onChanged"] = UNDEF
  /\ listenedEvents["n2"].has
  /\ nodeListeners["n2"] = {}

(***************************************************************************)
(* C13: classification.  A supplied prop is routed to the update pass      *)
(* (kept in this._elementProps and withheld from the framework props) if   *)
(* and only if its name is a key of the event map or an enumerable         *)
(* property of the element class's prototype that HTMLElement.prototype    *)
(* lacks; every other prop is passed through as a framework prop.  For     *)
(* every event map, whatever its event names.                              *)
(* The code tests the truthiness of the map's value, so a key mapped to    *)
(* the event name '' is passed through.                                    *)
(***************************************************************************)
C13_Classification ==
  \A i \in Insts : \A k \in PropNames :
    (pc[i] # "unborn" /\ props[i][k] # ABSENT) =>
      IF events[k] # UNDEF \/ (k \in ElementClassPrototype /\ k \notin HTMLElementPrototype)
        THEN elementProps[i][k] = props[i][k] /\ fwd[i].props[k] = ABSENT
        ELSE elementProps[i][k] = ABSENT /\ fwd[i].props[k] = props[i][k]

(***************************************************************************)
(* C15: the props handed to createElement for the custom element are       *)
(* exactly `ref`, bound to the adapter's wrapping callback, plus the       *)
(* caller-supplied props whose names are not in the property map; the      *)
(* adapter-internal __forwardedRef is never among them.                    *)
(* The code copies __forwardedRef like any other unmapped prop.            *)
(***************************************************************************)
C15_OnlyCallerPropsForwarded ==
  \A i \in Insts :
    pc[i] # "unborn" =>
      /\ fwd[i].ref = ref[i]
      /\ fwd[i].props["__forwardedRef"] = ABSENT
      /\ \A k \in PropNames \ {"__forwardedRef"} :
            fwd[i].props[k] = IF InPropertyMap(k) THEN ABSENT ELSE props[i][k]

(***************************************************************************)
(* C16: convergence.  After every completed update pass of an instance     *)
(* that holds its node: every non-reserved, non-event property-map prop    *)
(* present with a defined value equals the node property of that name;     *)
(* and, when distinct event-map props map to distinct event names, every   *)
(* event-map prop present with a defined handler has exactly one listener  *)
(* installed for its event, invoking that handler.                         *)
(* Stated for the non-reserved event-map props.  The code binds nothing    *)
(* for an event-map key whose event name is ''.                            *)
(***************************************************************************)
DistinctEvents ==
  \A k1 \in PropNames : \A k2 \in PropNames :
    (events[k1] # UNDEF /\ events[k1] = events[k2]) => k1 = k2

Defined(v) == v \notin {ABSENT, UNDEF}

C16_Convergence ==
  \A i \in Insts :
    (AfterPass(i) /\ element[i] # NULL) =>
      /\ \A k \in PropNames \ reservedReactProperties :
            (InPropertyMap(k) /\ events[k] = UNDEF /\ Defined(props[i][k]))
              => nodeProp[element[i]][k] = props[i][k]
      /\ DistinctEvents =>
            \A k \in PropNames \ reservedReactProperties :
              (events[k] # UNDEF /\ Defined(props[i][k]))
                => /\ Cardinality({o \in ObjIds : <<events[k], o>> \in nodeListeners[element[i]]}) = 1
                   /\ \A o \in ObjIds :
                        <<events[k], o>> \in nodeListeners[element[i]] => handleEvent[o] = props[i][k]

(***************************************************************************)
(* C14: two instances on two nodes do not interfere through the shared     *)
(* registry.  Every step of one instance (render, ref commit, mount or     *)
(* update pass, unmount) leaves the other node's properties, listeners,    *)
(* registry map and listener handlers unchanged, also for the same event   *)
(* name; and after its own pass an instance's node listens for 'changed'   *)
(* with the handler of its own props, whatever the other instance did.     *)
(***************************************************************************)
C14_NodesIndependent ==
  [][\A i \in Insts :
       pc'[i] # pc[i] =>
         /\ \A j \in Insts \ {i} :
              /\ nodeProp'[NodeOf(j)] = nodeProp[NodeOf(j)]
              /\ nodeListeners'[NodeOf(j)] = nodeListeners[NodeOf(j)]
              /\ listenedEvents'[NodeOf(j)] = listenedEvents[NodeOf(j)]
              /\ \A e \in EventNames : \A o \in ObjIds :
                   <<e, o>> \in nodeListeners[NodeOf(j)] => handleEvent'[o] = handleEvent[o]
         /\ (/\ pc'[i] = "updated"
             /\ element[i] # NULL
             /\ events["onChanged"] = "changed"
             /\ props[i]["onChanged"] \in Handlers)
            => \E h \in ObjIds :
                 /\ listenedEvents'[element[i]].map["changed"] = h
                 /\ nodeListeners'[element[i]] = {<<"changed", h>>}
                 /\ handleEvent'[h] = props[i]["onChanged"]]_vars

\* Both nodes listened for 'changed'; the first instance has just cleared
\* its handler, the second node still has its own listener and handler.
C14_Witness ==
  /\ AfterUpdate("i1")
  /\ oldProps["i1"]["onChanged"] = "fn1" /\ props["i1"]["onChanged"] = UNDEF
  /\ nodeListeners["n1"] = {}
  /\ pc["i2"] = "idle"
  /\ props["i2"]["onChanged"] = "fn2"
  /\ \E h \in ObjIds : nodeListeners["n2"] = {<<"changed", h>>} /\ handleEvent[h] = "fn2"

(***************************************************************************)
(* C17: this._element is assigned once.  It is null until a wrapping       *)
(* callback is called with a non-null value, takes that value, and no      *)
(* later step changes it: not the call with null when the ref changes or   *)
(* the component unmounts, and not a call of the current wrapping callback *)
(* with any other value (null or either node).                             *)
(***************************************************************************)
C17_ElementAssignedOnce ==
  [][\A i \in Insts :
       /\ pc[i] = "unborn" => element[i] = NULL
       /\ element[i] # NULL => element'[i] = element[i]
       /\ element'[i] # element[i] => pc'[i] = "attached" /\ element'[i] = hostNode[i]
       /\ (element[i] = NULL /\ pc'[i] = "attached" /\ pc[i] # "attached")
             => element'[i] = hostNode[i]
       /\ ref[i] # NoWrapper =>
             \A v \in Nodes \cup {NULL} :
               wrapperCall(RefWorld(i), ref[i], v).element
                 = IF element[i] = NULL THEN v ELSE element[i]]_vars

\* The caller changed its ref: the old wrapping callback was called with
\* null and the instance still holds the node.
C17_Witness ==
  /\ pc["i1"] = "detached"
  /\ element["i1"] = "n1"
  /\ \E r \in CallbackRefs : refState[r].last = NULL /\ refState[r].withNode > 0

====
